---- MODULE Spec2Model ----
(***************************************************************************)
(* The four Wavefront modules of library/: wf_alert, wf_event, wf_source   *)
(* and wf_source_tags.  One behaviour is one invocation of one module (and *)
(* for wf_source_tags, re-invocations with the same parameters) against    *)
(* the remote service.  Every urllib2.urlopen call is one step whose       *)
(* answer is chosen by the remote service.                                 *)
(***************************************************************************)
EXTENDS Integers, Sequences, FiniteSets, TLC

VARIABLES
    prog,           \* the module that is invoked
    pc,             \* position of the invocation in main()
    outcome,        \* "running", "exit" (exit_json), "fail" (fail_json),
                    \* "raise" (an exception that main() does not catch)
    changed,        \* the value of changed handed to exit_json
    http,           \* the requests sent so far by this invocation, in order
    msg,            \* the failure message: its kind and the keys it lists
    given,          \* the parameters as the host gave them
    params,         \* module.params
    remote,         \* the state of the resource on the remote service
    existing,       \* existing_tags / existing_source as last fetched
    i,              \* index of the for loop that is running
    attempts,       \* attempts counter of the retry loop that is running
    result,         \* the payload handed to exit_json
    past,           \* the request logs of the earlier invocations
    others          \* changes made so far by other clients of the service

vars == <<prog, pc, outcome, changed, http, msg, given, params, remote, existing,
          i, attempts, result, past, others>>

-----------------------------------------------------------------------------
(* Bounds of the model *)

\* longest tags list given to wf_source_tags / wf_source
MaxTags == 2
\* invocations of wf_source_tags in a row with the same parameters
MaxRuns == 2
\* changes of the source by other clients during one wf_source invocation
MaxOthers == 1
\* most keys in a body given to wf_event
MaxBodyKeys == 2
\* latest reading of the clock, in half milliseconds since the epoch, when
\* wf_event builds its argument_spec
MaxClock == 2

\* the tags that appear on the remote source or in the tags parameter
TagNames == {"a", "b", "c"}

-----------------------------------------------------------------------------
(* Constants of the program *)

\* put_tag gives up at this attempt ("if attempts == 10")
MaxPutAttempts == 10

-----------------------------------------------------------------------------
(* Helpers *)

Range(s) == {s[k] : k \in 1..Len(s)}

SeqsUpTo(S, n) == UNION {[1..k -> S] : k \in 0..n}

\* every order in which a list response can enumerate the set S
Orders(S) == {s \in [1..Cardinality(S) -> S] : Range(s) = S}

NoMsg == [kind |-> "", keys |-> {}]

\* urlopen returned without raising, on every request so far
AllSucceeded(log) == \A k \in 1..Len(log) : log[k].ok

-----------------------------------------------------------------------------
(* wf_source_tags *)

TagStates == {"None", "absent", "present", "replace"}

\* one urlopen: the request, whether it returned, and the list a GET returned
TagRequest(method, tag, ok, items) ==
    [method |-> method, tag |-> tag, ok |-> ok, items |-> items]

TagsInit ==
    /\ prog = "wf_source_tags"
    /\ pc = "get_existing_tags"
    /\ outcome = "running"
    /\ changed = FALSE
    /\ http = <<>>
    /\ msg = NoMsg
    /\ params \in [state : TagStates, tags : SeqsUpTo(TagNames, MaxTags)]
    /\ remote \in SUBSET TagNames
    /\ existing = <<>>
    /\ i = 1
    /\ attempts = 1
    /\ result = <<>>
    /\ past = <<>>
    /\ others = 0
    /\ given = params

\* module.fail_json: the process exits with a failure
FailJson ==
    /\ outcome' = "fail"
    /\ pc' = "done"

\* mutant of TagsBranch: a replace starts at its second loop, the additions
TagsBranchPutFirst(state) ==
    CASE state = "absent"  -> "absent"
      [] state = "present" -> "present"
      [] state = "replace" -> "replace_put"
      [] OTHER             -> "refresh"

\* the three "if state ==" blocks of main(): at most one of them runs
TagsBranch(state) ==
    CASE state = "absent"  -> "absent"
      [] state = "present" -> "present"
      [] state = "replace" -> "replace_delete"
      [] OTHER             -> "refresh"

\* get_existing_tags at the top of main()
GetExistingTags ==
    /\ prog = "wf_source_tags" /\ pc = "get_existing_tags"
    /\ \/ \E tags \in Orders(remote) :
            /\ http' = Append(http, TagRequest("GET", "", TRUE, tags))
            /\ existing' = tags
            /\ IF params.tags # <<>>
               THEN /\ pc' = TagsBranch(params.state)
                    /\ UNCHANGED <<outcome, result>>
               ELSE \* elif not tags: exit_json(changed, existing_tags)
                    /\ pc' = "done"
                    /\ outcome' = "exit"
                    /\ result' = tags
       \/ /\ http' = Append(http, TagRequest("GET", "", FALSE, <<>>))
          /\ FailJson
          /\ UNCHANGED <<existing, result>>
    /\ i' = 1
    /\ UNCHANGED <<prog, given, others, changed, msg, params, remote, attempts, past>>

\* mutant of DeleteTag: a DELETE that fails is skipped and the loop goes on
DeleteTagGoesOn(tag, next) ==
    \/ /\ http' = Append(http, TagRequest("DELETE", tag, TRUE, <<>>))
       /\ remote' = remote \ {tag}
       /\ changed' = TRUE
       /\ i' = i + 1
       /\ pc' = next
       /\ UNCHANGED outcome
    \/ /\ http' = Append(http, TagRequest("DELETE", tag, FALSE, <<>>))
       /\ i' = i + 1
       /\ pc' = next
       /\ UNCHANGED <<remote, changed, outcome>>

\* delete_tag: one DELETE, no retry
DeleteTag(tag, next) ==
    \/ /\ http' = Append(http, TagRequest("DELETE", tag, TRUE, <<>>))
       /\ remote' = remote \ {tag}
       /\ changed' = TRUE
       /\ i' = i + 1
       /\ pc' = next
       /\ UNCHANGED outcome
    \/ /\ http' = Append(http, TagRequest("DELETE", tag, FALSE, <<>>))
       /\ FailJson
       /\ UNCHANGED <<remote, changed, i>>

\* mutant of PutGivesUp: put_tag gives up at the second attempt
PutGivesUpEarly(n) == n = 2

\* "if attempts == 10" of put_tag
PutGivesUp(n) == n = MaxPutAttempts

\* put_tag: one urlopen of the while True loop
PutTag(tag, next) ==
    \/ /\ http' = Append(http, TagRequest("PUT", tag, TRUE, <<>>))
       /\ remote' = remote \cup {tag}
       /\ changed' = TRUE
       /\ i' = i + 1
       /\ attempts' = 1
       /\ pc' = next
       /\ UNCHANGED outcome
    \/ /\ http' = Append(http, TagRequest("PUT", tag, FALSE, <<>>))
       /\ IF PutGivesUp(attempts)
          THEN FailJson /\ UNCHANGED attempts
          ELSE attempts' = attempts + 1 /\ UNCHANGED <<pc, outcome>>
       /\ UNCHANGED <<remote, changed, i>>

\* the loop is over: go to `next`
LoopEnd(list, next) ==
    /\ i > Len(list)
    /\ pc' = next
    /\ i' = 1
    /\ UNCHANGED <<outcome, changed, http, remote, attempts>>

\* mutant of LoopSkip: changed is set for a tag that needs no request
LoopSkipChanged ==
    /\ i' = i + 1
    /\ changed' = TRUE
    /\ UNCHANGED <<pc, outcome, http, remote, attempts>>

\* the loop's condition is false for list[i]: next iteration
LoopSkip ==
    /\ i' = i + 1
    /\ UNCHANGED <<pc, outcome, changed, http, remote, attempts>>

\* "if tag in existing_tags" of the absent loop
AbsentNeedsDelete(tag) == tag \in Range(existing)

\* mutant of PresentNeedsPut: the test against existing_tags is lost
PresentNeedsPutAlways(tag) == TRUE

\* "if tag not in existing_tags" of the present loop
PresentNeedsPut(tag) == tag \notin Range(existing)

\* "if tag not in tags" of the first replace loop
ReplaceNeedsDelete(tag) == tag \notin Range(params.tags)

\* "if tag not in existing_tags" of the second replace loop
ReplaceNeedsPut(tag) == tag \notin Range(existing)

\* state == 'absent': for tag in tags: if tag in existing_tags: delete_tag
AbsentLoop ==
    /\ prog = "wf_source_tags" /\ pc = "absent"
    /\ \/ LoopEnd(params.tags, "refresh")
       \/ /\ i <= Len(params.tags)
          /\ IF AbsentNeedsDelete(params.tags[i])
             THEN DeleteTag(params.tags[i], "absent") /\ UNCHANGED attempts
             ELSE LoopSkip
    /\ UNCHANGED <<prog, given, others, msg, params, existing, result, past>>

\* state == 'present': for tag in tags: if tag not in existing_tags: put_tag
PresentLoop ==
    /\ prog = "wf_source_tags" /\ pc = "present"
    /\ \/ LoopEnd(params.tags, "refresh")
       \/ /\ i <= Len(params.tags)
          /\ IF PresentNeedsPut(params.tags[i])
             THEN PutTag(params.tags[i], "present")
             ELSE LoopSkip
    /\ UNCHANGED <<prog, given, others, msg, params, existing, result, past>>

\* state == 'replace', first loop: for tag in existing_tags: if tag not in tags
ReplaceDeleteLoop ==
    /\ prog = "wf_source_tags" /\ pc = "replace_delete"
    /\ \/ LoopEnd(existing, "replace_put")
       \/ /\ i <= Len(existing)
          /\ IF ReplaceNeedsDelete(existing[i])
             THEN DeleteTag(existing[i], "replace_delete") /\ UNCHANGED attempts
             ELSE LoopSkip
    /\ UNCHANGED <<prog, given, others, msg, params, existing, result, past>>

\* state == 'replace', second loop: for tag in tags: if tag not in existing_tags
ReplacePutLoop ==
    /\ prog = "wf_source_tags" /\ pc = "replace_put"
    /\ \/ LoopEnd(params.tags, "refresh")
       \/ /\ i <= Len(params.tags)
          /\ IF ReplaceNeedsPut(params.tags[i])
             THEN PutTag(params.tags[i], "replace_put")
             ELSE LoopSkip
    /\ UNCHANGED <<prog, given, others, msg, params, existing, result, past>>

\* "Get refreshed tag list" and exit_json(changed=changed, tags=existing_tags)
RefreshTags ==
    /\ prog = "wf_source_tags" /\ pc = "refresh"
    /\ \/ \E tags \in Orders(remote) :
            /\ http' = Append(http, TagRequest("GET", "", TRUE, tags))
            /\ existing' = tags
            /\ result' = tags
            /\ outcome' = "exit"
            /\ pc' = "done"
       \/ /\ http' = Append(http, TagRequest("GET", "", FALSE, <<>>))
          /\ FailJson
          /\ UNCHANGED <<existing, result>>
    /\ UNCHANGED <<prog, given, others, changed, msg, params, remote, i, attempts, past>>

\* the host runs the module again with the same parameters (a fresh process)
RunAgain ==
    /\ prog = "wf_source_tags" /\ pc = "done" /\ outcome = "exit"
    /\ Len(past) + 1 < MaxRuns
    /\ past' = Append(past, http)
    /\ pc' = "get_existing_tags"
    /\ outcome' = "running"
    /\ changed' = FALSE
    /\ http' = <<>>
    /\ existing' = <<>>
    /\ i' = 1
    /\ attempts' = 1
    /\ result' = <<>>
    /\ UNCHANGED <<prog, given, others, msg, params, remote>>

TagsNext ==
    \/ GetExistingTags
    \/ AbsentLoop
    \/ PresentLoop
    \/ ReplaceDeleteLoop
    \/ ReplacePutLoop
    \/ RefreshTags
    \/ RunAgain

SpecTags == TagsInit /\ [][TagsNext]_vars

-----------------------------------------------------------------------------
(* wf_source *)

\* The answers of the remote service to a request.  "ok": urlopen returns
\* and the body is JSON; "okbad": urlopen returns and the body is not JSON;
\* the others are HTTPError: a JSON error body whose status.message contains
\* 'does not exist' / 'already exists' / something else ("other"), or an
\* error body that is not JSON or is an empty object ("empty").

\* _read_response(url_error.read()) is a non-empty dict
BodyTruthy(answer) == answer # "empty"

\* message and '<text>' in message
MessageContains(answer, text) == BodyTruthy(answer) /\ answer = text

AbsentSource == [exists |-> FALSE, tags |-> {}, description |-> ""]

SourceRequest(method, answer, payload) ==
    [method |-> method, ok |-> answer \in {"ok", "okbad"}, answer |-> answer,
     payload |-> payload]

NoPayload == [sourceName |-> "", tags |-> {}, description |-> ""]

SourceInit ==
    /\ prog = "wf_source"
    /\ pc = "get_existing_source"
    /\ outcome = "running"
    /\ changed = FALSE
    /\ http = <<>>
    /\ msg = NoMsg
    /\ params \in [hidden : BOOLEAN, description : {"", "d"},
                   tags : SeqsUpTo(TagNames \ {"c"}, MaxTags)]
    /\ remote \in {AbsentSource} \cup
                  [exists : {TRUE}, tags : SUBSET {"a", "hidden"},
                   description : {"", "old"}]
    /\ existing = AbsentSource
    /\ i = 0
    /\ attempts = 0
    /\ result = "None"
    /\ past = <<>>
    /\ others = 0
    /\ given = params

\* what the service answers to GET /api/v2/source/{name}
GetSourceAnswers ==
    (IF remote.exists THEN {"ok", "okbad"} ELSE {"does not exist"})
        \cup {"other", "empty"}

\* get_existing_source, lines 86-101; when it returns, main() goes on at
\* `next` with outcome `after`
GetExistingSource(answer, next, after) ==
    /\ http' = Append(http, SourceRequest("GET", answer, NoPayload))
    /\ CASE answer = "ok" ->
              /\ existing' = remote
              /\ pc' = next
              /\ outcome' = after
         [] answer = "okbad" ->
              \* json.loads(response.read()) raises ValueError
              /\ outcome' = "raise"
              /\ pc' = "done"
              /\ UNCHANGED existing
         [] MessageContains(answer, "does not exist") ->
              /\ existing' = AbsentSource
              /\ pc' = next
              /\ outcome' = after
         [] OTHER ->
              /\ FailJson
              /\ UNCHANGED existing

\* main(): existing_source = get_existing_source(...); if existing_source:
SourceFirstGet ==
    /\ prog = "wf_source" /\ pc = "get_existing_source"
    /\ \E answer \in GetSourceAnswers :
          /\ GetExistingSource(answer, "branch", "running")
          /\ UNCHANGED <<changed, result>>
    /\ UNCHANGED <<prog, given, others, msg, params, remote, i, attempts, past>>

\* mutant of SourceBranch: the create branch is taken whatever the GET found
SourceBranchAlwaysCreate ==
    /\ prog = "wf_source" /\ pc = "branch"
    /\ pc' = "create_source"
    /\ UNCHANGED <<prog, given, others, outcome, changed, http, msg, params, remote,
                   existing, i, attempts, result, past>>

\* "if existing_source:" of main()
SourceBranch ==
    /\ prog = "wf_source" /\ pc = "branch"
    /\ pc' = IF existing.exists THEN "update_source" ELSE "create_source"
    /\ UNCHANGED <<prog, given, others, outcome, changed, http, msg, params, remote,
                   existing, i, attempts, result, past>>

\* the payload of create_source, lines 116-120
CreatePayload ==
    [sourceName |-> "s", tags |-> Range(params.tags),
     description |-> params.description]

\* the payload of update_source, lines 166-175
UpdatePayload ==
    [sourceName |-> "s",
     tags |-> Range(params.tags) \cup (IF params.hidden THEN {"hidden"} ELSE {}),
     description |-> params.description]

\* what the service answers to POST /api/v2/source
PostSourceAnswers ==
    (IF remote.exists THEN {"already exists"} ELSE {"ok"})
        \cup {"other", "empty"}

\* what the service answers to PUT /api/v2/source/{name}
PutSourceAnswers ==
    (IF remote.exists THEN {"ok"} ELSE {"does not exist"})
        \cup {"other", "empty"}

\* mutant of CreateErrorFails: every HTTPError of the POST is fatal
CreateErrorFailsAlways(answer) == TRUE

\* the except branch of create_source, lines 132-144: TRUE when it fail_json's
CreateErrorFails(answer) == ~BodyTruthy(answer)

\* the except branch of update_source, lines 187-201: TRUE when it fail_json's
UpdateErrorFails(answer) == ~MessageContains(answer, "does not exist")

\* create_source, then "changed = True" (lines 232-234)
CreateSource ==
    /\ prog = "wf_source" /\ pc = "create_source"
    /\ \E answer \in PostSourceAnswers :
          /\ http' = Append(http, SourceRequest("POST", answer, CreatePayload))
          /\ IF answer = "ok"
             THEN /\ remote' = [exists |-> TRUE, tags |-> CreatePayload.tags,
                                description |-> CreatePayload.description]
                  /\ result' = "payload"
                  /\ changed' = TRUE
                  /\ pc' = "refetch"
                  /\ UNCHANGED outcome
             ELSE /\ UNCHANGED remote
                  /\ IF CreateErrorFails(answer)
                     THEN FailJson /\ UNCHANGED <<result, changed>>
                     ELSE \* 'already exists': return True; any other
                          \* message: the function ends and returns None
                          /\ result' = IF MessageContains(answer, "already exists")
                                       THEN "True" ELSE "None"
                          /\ changed' = TRUE
                          /\ pc' = "refetch"
                          /\ UNCHANGED outcome
    /\ UNCHANGED <<prog, given, others, msg, params, existing, i, attempts, past>>

\* update_source, then "changed = True" (lines 228-230)
UpdateSource ==
    /\ prog = "wf_source" /\ pc = "update_source"
    /\ \E answer \in PutSourceAnswers :
          /\ http' = Append(http, SourceRequest("PUT", answer, UpdatePayload))
          /\ IF answer = "ok"
             THEN /\ remote' = [exists |-> TRUE, tags |-> UpdatePayload.tags,
                                description |-> UpdatePayload.description]
                  /\ result' = "payload"
                  /\ changed' = TRUE
                  /\ pc' = "refetch"
                  /\ UNCHANGED outcome
             ELSE /\ UNCHANGED remote
                  /\ IF UpdateErrorFails(answer)
                     THEN FailJson /\ UNCHANGED <<result, changed>>
                     ELSE \* 'does not exist': return {}
                          /\ result' = "{}"
                          /\ changed' = TRUE
                          /\ pc' = "refetch"
                          /\ UNCHANGED outcome
    /\ UNCHANGED <<prog, given, others, msg, params, existing, i, attempts, past>>

\* the final get_existing_source and exit_json (lines 236-241)
SourceRefetch ==
    /\ prog = "wf_source" /\ pc = "refetch"
    /\ \E answer \in GetSourceAnswers :
          /\ GetExistingSource(answer, "done", "exit")
          /\ UNCHANGED <<changed, result>>
    /\ UNCHANGED <<prog, given, others, msg, params, remote, i, attempts, past>>

\* another client of the service creates or deletes the source meanwhile
OtherClient ==
    /\ prog = "wf_source" /\ pc \in {"branch", "refetch"}
    /\ others < MaxOthers
    /\ others' = others + 1
    /\ remote' = IF remote.exists THEN AbsentSource
                 ELSE [exists |-> TRUE, tags |-> {}, description |-> ""]
    /\ UNCHANGED <<prog, given, pc, outcome, changed, http, msg, params,
                   existing, i, attempts, result, past>>

SourceNext ==
    \/ SourceFirstGet
    \/ SourceBranch
    \/ CreateSource
    \/ UpdateSource
    \/ SourceRefetch
    \/ OtherClient

SpecSource == SourceInit /\ [][SourceNext]_vars

-----------------------------------------------------------------------------
(* Python values, as far as safe_cast and the truth tests tell them apart *)

PyStr(s)      == [t |-> "str",  s |-> s,  n |-> 0, items |-> <<>>]
PyInt(n)      == [t |-> "int",  s |-> "", n |-> n, items |-> <<>>]
PyBool(b)     == [t |-> "bool", s |-> "", n |-> IF b THEN 1 ELSE 0, items |-> <<>>]
\* a list of strings
PyList(items) == [t |-> "list", s |-> "", n |-> 0, items |-> items]
\* a dict of strings: items is <<key1, value1, key2, value2, ...>>
PyDict(items) == [t |-> "dict", s |-> "", n |-> 0, items |-> items]
PyNone        == [t |-> "NoneType", s |-> "", n |-> 0, items |-> <<>>]

\* bool(val), "if val:"
Truthy(val) ==
    CASE val.t = "str"  -> val.s # ""
      [] val.t = "int"  -> val.n # 0
      [] val.t = "bool" -> val.n # 0
      [] val.t \in {"list", "dict"} -> val.items # <<>>
      [] OTHER -> FALSE

\* the characters of the strings of the model
Chars(s) ==
    CASE s = ""   -> <<>>
      [] s = "ab" -> <<"a", "b">>
      [] s = "12" -> <<"1", "2">>
      [] OTHER    -> <<s>>

\* the strings int() parses, and their values
Numerals == [x \in {"12", "5", "1", "2"} |->
                CASE x = "12" -> 12 [] x = "5" -> 5 [] x = "1" -> 1 [] OTHER -> 2]

\* str(n)
Numeral(n) ==
    CASE n = 0 -> "0" [] n = 1 -> "1" [] n = 2 -> "2" [] n = 3 -> "3"
      [] n = 5 -> "5" [] n = 12 -> "12" [] OTHER -> "n"

Cast(kind, val) == [kind |-> kind, val |-> val]

\* str(val)
ToStr(val) ==
    CASE val.t = "str"  -> Cast("ok", val)
      [] val.t = "int"  -> Cast("ok", PyStr(Numeral(val.n)))
      [] val.t = "bool" -> Cast("ok", PyStr(IF val.n = 1 THEN "True" ELSE "False"))
      [] val.t = "list" -> Cast("ok", PyStr(IF val.items = <<>> THEN "[]" ELSE "[..]"))
      [] val.t = "dict" -> Cast("ok", PyStr(IF val.items = <<>> THEN "{}" ELSE "{..}"))
      [] OTHER          -> Cast("ok", PyStr("None"))

\* the pairs dict() makes of a sequence of strings: each must have length 2
PairsOf(strs) ==
    IF \A k \in 1..Len(strs) : Len(Chars(strs[k])) = 2
    THEN Cast("ok", PyDict([k \in 1..(2 * Len(strs)) |->
                               Chars(strs[(k + 1) \div 2])[2 - (k % 2)]]))
    ELSE Cast("ValueError", PyNone)

\* dict(val)
ToDict(val) ==
    CASE val.t = "dict" -> Cast("ok", val)
      [] val.t = "str"  -> PairsOf(Chars(val.s))
      [] val.t = "list" -> PairsOf(val.items)
      [] OTHER          -> Cast("TypeError", PyNone)

\* list(val): the characters of a string, the keys of a dict
ToList(val) ==
    CASE val.t = "list" -> Cast("ok", val)
      [] val.t = "str"  -> Cast("ok", PyList(Chars(val.s)))
      [] val.t = "dict" ->
            Cast("ok", PyList([k \in 1..(Len(val.items) \div 2) |->
                                  val.items[2 * k - 1]]))
      [] OTHER          -> Cast("TypeError", PyNone)

\* int(val)
ToInt(val) ==
    CASE val.t = "int"  -> Cast("ok", val)
      [] val.t = "bool" -> Cast("ok", PyInt(val.n))
      [] val.t = "str"  -> IF val.s \in DOMAIN Numerals
                           THEN Cast("ok", PyInt(Numerals[val.s]))
                           ELSE Cast("ValueError", PyNone)
      [] OTHER          -> Cast("TypeError", PyNone)

\* bool(val)
ToBool(val) == Cast("ok", PyBool(Truthy(val)))

-----------------------------------------------------------------------------
(* wf_event: the schema and _validate_body *)

\* MAX_ATTEMPTS
MAX_ATTEMPTS == 1

VALID_EVENT_DICT ==
    [name |-> "str", annotations |-> "dict", id |-> "str", table |-> "str",
     startTime |-> "int", endTime |-> "int", tags |-> "list",
     createdAt |-> "int", hosts |-> "list", isEphemeral |-> "bool",
     creatorId |-> "str", createdEpochMillis |-> "int",
     updatedEpochMillis |-> "int", updaterId |-> "str", updatedAt |-> "int",
     summarizedEvents |-> "int", isUserEvent |-> "bool",
     runningState |-> "str", canClose |-> "bool", creatorType |-> "list",
     canDelete |-> "bool"]

EVENT_READONLY_FIELDS ==
    {"id", "isEphemeral", "isUserEvent", "runningState", "canDelete",
     "canClose", "creatorType", "createdAt", "updatedAt",
     "createdEpochMillis", "updatedEpochMillis", "updaterId", "creatorId",
     "summarizedEvents"}

\* isinstance(val, type)
IsInstance(val, type) ==
    IF type = "int" THEN val.t \in {"int", "bool"} ELSE val.t = type

\* safe_cast(key, val): the key decides the conversion
safe_cast(key, val) ==
    CASE key \in {"name", "id", "table", "creatorId", "updaterId",
                  "runningState"} -> ToStr(val)
      [] key = "annotations" -> ToDict(val)
      [] key \in {"tags", "creatorType", "hosts"} -> ToList(val)
      [] key \in {"startTime", "endTime", "createdAt", "createdEpochMillis",
                  "updatedEpochMillis", "updatedAt", "summarizedEvents"}
            -> ToInt(val)
      [] key \in {"isEphemeral", "isUserEvent", "canClose", "canDelete"}
            -> ToBool(val)
      [] OTHER -> Cast("ValueError", PyNone)

\* body[key] = val
SetItem(body, key, val) ==
    [k \in DOMAIN body \cup {key} |-> IF k = key THEN val ELSE body[k]]

\* "(not id) and (ansible_module.params.get('annotations', None) is None)":
\* the argument_spec has no annotations parameter, so the second test is true
IsCreate(id) == ~Truthy(id)

\* not body.get(key, None)
Missing(body, key) == key \notin DOMAIN body \/ ~Truthy(body[key])

\* lines 181-187: the body of a create
CreateFixup(body, p) ==
    LET b1 == SetItem(body, "annotations", PyDict(<<>>))
        b2 == IF Missing(b1, "startTime")
              THEN SetItem(b1, "startTime", p.validated_start_time) ELSE b1
    IN  IF Missing(b2, "endTime")
        THEN SetItem(b2, "endTime", p.validated_end_time) ELSE b2

\* mutant of ReadonlyKeys: only the id is looked for
ReadonlyKeysIdOnly(body) == DOMAIN body \cap {"id"}

\* set(body.keys()).intersection(EVENT_READONLY_FIELDS)
ReadonlyKeys(body) == DOMAIN body \cap EVENT_READONLY_FIELDS

\* set(body.keys()) - set(VALID_EVENT_DICT.keys())
UnknownKeys(body) == DOMAIN body \ DOMAIN VALID_EVENT_DICT

\* the keys the loop of lines 215-222 hands to safe_cast
Mismatched(body) ==
    {k \in DOMAIN body : ~IsInstance(body[k], VALID_EVENT_DICT[k])}

\* the exceptions of safe_cast that lines 217-222 catch
Caught == {"ValueError"}

Validated(kind, keys, body) == [kind |-> kind, keys |-> keys, body |-> body]

\* lines 213-232, on the body of line 203
CoerceBody(body) ==
    LET casts   == [k \in Mismatched(body) |-> safe_cast(k, body[k])]
        escaped == {k \in DOMAIN casts : casts[k].kind \notin Caught \cup {"ok"}}
        invalid == {k \in DOMAIN casts : casts[k].kind \in Caught}
        new_body == [k \in DOMAIN body |->
                        IF k \in DOMAIN casts /\ casts[k].kind = "ok"
                        THEN casts[k].val ELSE body[k]]
    IN  IF escaped # {} THEN Validated("TypeError", {}, body)
        ELSE IF invalid # {} THEN Validated("ValueError", invalid, body)
        ELSE Validated("ok", {}, new_body)

\* _validate_body(ansible_module): "readonly" and "invalid_keys" are the two
\* fail_json calls, "ValueError" is the raise of line 230, "TypeError" an
\* exception of safe_cast that nothing catches
_validate_body(p) ==
    LET body == p.body.d
        fixed == IF IsCreate(p.id) THEN CreateFixup(body, p)
                 ELSE SetItem(body, "id", p.id)
    IN  IF ~IsCreate(p.id) /\ ReadonlyKeys(body) # {}
        THEN Validated("readonly", ReadonlyKeys(body), body)
        ELSE IF UnknownKeys(fixed) # {}
        THEN Validated("invalid_keys", UnknownKeys(fixed), fixed)
        ELSE CoerceBody(fixed)

-----------------------------------------------------------------------------
(* wf_event: main() *)

\* the keys and values of the bodies given to the module
BodyKeys == {"name", "annotations", "id", "startTime", "endTime", "hosts",
             "canClose", "bogus"}

BodyValues == {PyStr("ab"), PyStr("12"), PyInt(5), PyBool(TRUE),
               PyList(<<"h">>), PyDict(<<"k", "v">>), PyNone}

BodyDicts ==
    UNION {[K -> BodyValues] :
             K \in {K \in SUBSET BodyKeys : Cardinality(K) <= MaxBodyKeys}}

\* body: None, or a dict (the empty dict too)
Bodies == {[none |-> TRUE, d |-> <<>>]} \cup
          {[none |-> FALSE, d |-> d] : d \in BodyDicts}

\* "if body:"
BodyGiven(p) == ~p.body.none /\ DOMAIN p.body.d # {}

EventRequest(method, api, id, body, answer) ==
    [method |-> method, api |-> api, id |-> id, body |-> body,
     ok |-> answer \in {"ok", "okbad"}, answer |-> answer]

EventInit ==
    /\ prog = "wf_event"
    /\ pc = "AnsibleModule"
    /\ outcome = "running"
    /\ changed = FALSE
    /\ http = <<>>
    /\ msg = NoMsg
    /\ params \in [id : {PyNone, PyStr("x")},
                   body : Bodies,
                   query : {PyNone, PyList(<<>>), PyList(<<"q">>)},
                   delete : BOOLEAN,
                   start_time : {PyNone, PyInt(1), PyInt(3), PyStr("ab")},
                   end_time : {PyNone, PyInt(2), PyStr("ab")},
                   validated_start_time : {PyNone},
                   validated_end_time : {PyNone}]
    /\ remote = {}
    /\ existing = <<>>
    /\ i = 0
    /\ attempts = 0
    /\ result = "None"
    /\ past = <<>>
    /\ others = 0
    /\ given = params

\* fail_json(msg=...) / an exception nothing catches
EventEnds(how, kind, keys) ==
    /\ outcome' = how
    /\ pc' = "done"
    /\ msg' = [kind |-> kind, keys |-> keys]

\* mutually_exclusive=[['query', 'body'], ['query', 'id']] of the
\* argument_spec: a parameter counts when it is given
MutuallyExclusive(p) ==
    \/ (p.query # PyNone /\ ~p.body.none)
    \/ (p.query # PyNone /\ p.id # PyNone)

\* a datetime is its distance from utcfromtimestamp(0) in half milliseconds
\* datetime.timedelta(hours=h)
Timedelta(h) == h * 3600 * 2000

\* datetime.datetime.utcnow() at the clock reading c
UtcNow(c) == c

\* to_millis(dtime): int((dtime - _epoch).total_seconds() * 1000)
to_millis(dtime) == dtime \div 2

\* the default of start_time in the argument_spec, the clock reading now
DefaultStartTime(now) == to_millis(now - Timedelta(-1))

\* the default of end_time in the argument_spec, the clock reading now
DefaultEndTime(now) == to_millis(now)

\* a parameter the host left out (None here) takes its default
WithDefault(val, default) == IF val = PyNone THEN PyInt(default) ELSE val

\* AnsibleModule(argument_spec=..., mutually_exclusive=...): the two
\* defaults are computed from two readings of the clock, the second one not
\* before the first
EventArguments ==
    /\ prog = "wf_event" /\ pc = "AnsibleModule"
    /\ \E now \in 1..MaxClock : \E later \in {now, now + 1} :
          params' = [params EXCEPT
                        !.start_time = WithDefault(@, DefaultStartTime(UtcNow(now))),
                        !.end_time = WithDefault(@, DefaultEndTime(UtcNow(later)))]
    /\ IF MutuallyExclusive(params)
       THEN EventEnds("fail", "mutually_exclusive", {})
       ELSE pc' = "get_times" /\ UNCHANGED <<outcome, msg>>
    /\ UNCHANGED <<prog, given, others, changed, http, remote, existing, i,
                   attempts, result, past>>

\* get_times and lines 544-548
EventGetTimes ==
    /\ prog = "wf_event" /\ pc = "get_times"
    /\ LET start == ToInt(params.start_time)
           end   == ToInt(params.end_time)
       IN  IF start.kind # "ok"
           THEN EventEnds("fail", "start_time", {}) /\ UNCHANGED params
           ELSE IF end.kind # "ok"
           THEN EventEnds("fail", "end_time", {}) /\ UNCHANGED params
           ELSE /\ params' = [params EXCEPT !.validated_start_time = start.val,
                                            !.validated_end_time = end.val]
                /\ pc' = "validate"
                /\ UNCHANGED <<outcome, msg>>
    /\ UNCHANGED <<prog, given, others, changed, http, remote, existing, i, attempts,
                   result, past>>

\* lines 550-556: "if body:" params['body'] = _validate_body(ansible_module)
EventValidate ==
    /\ prog = "wf_event" /\ pc = "validate"
    /\ IF BodyGiven(params)
       THEN LET v == _validate_body(params)
            IN  CASE v.kind = "ok" ->
                       /\ params' = [params EXCEPT !.body.d = v.body]
                       /\ pc' = "select"
                       /\ UNCHANGED <<outcome, msg>>
                  [] v.kind \in {"readonly", "invalid_keys"} ->
                       EventEnds("fail", v.kind, v.keys) /\ UNCHANGED params
                  [] OTHER ->
                       EventEnds("raise", v.kind, v.keys) /\ UNCHANGED params
       ELSE pc' = "select" /\ UNCHANGED <<outcome, msg, params>>
    /\ UNCHANGED <<prog, given, others, changed, http, remote, existing, i, attempts,
                   result, past>>

\* mutant of SelectOperation: the delete option is not looked at
SelectOperationNoDelete(p) ==
    IF Truthy(p.id)
    THEN IF BodyGiven(p) THEN "update_event" ELSE "get_event_by_id"
    ELSE IF Truthy(p.query) THEN "get_event_by_query"
    ELSE IF BodyGiven(p) THEN "generate_new_event"
    ELSE "required"

\* "Select which activity based on args", lines 559-604
SelectOperation(p) ==
    IF Truthy(p.id)
    THEN IF BodyGiven(p) THEN "update_event"
         ELSE IF p.delete THEN "delete_event_by_id"
         ELSE "get_event_by_id"
    ELSE IF Truthy(p.query) THEN "get_event_by_query"
    ELSE IF BodyGiven(p) THEN "generate_new_event"
    ELSE "required"

EventSelect ==
    /\ prog = "wf_event" /\ pc = "select"
    /\ IF SelectOperation(params) = "required"
       THEN EventEnds("fail", "required", {})
       ELSE pc' = SelectOperation(params) /\ UNCHANGED <<outcome, msg>>
    /\ UNCHANGED <<prog, given, others, changed, http, params, remote, existing, i,
                   attempts, result, past>>

\* exit_json(changed=..., event=..., ...)
ExitJson(chg) ==
    /\ outcome' = "exit"
    /\ pc' = "done"
    /\ changed' = chg
    /\ UNCHANGED msg

\* the end of a read (get_alert, get_event_by_id, get_event_by_query and
\* the exit_json of main()) on the answer of the service:
\*   urlopen returned: _read_response gives the body or {}: exit_json;
\*   HTTPError, body is a non-empty dict: {} when the message contains
\*     'does not exist', else fail_json;
\*   HTTPError, no body: the function returns None and main() raises
\*     AttributeError on None.get
ReadAnswers == {"ok", "okbad", "does not exist", "other", "empty"}

ReadEnds(answer) ==
    CASE answer \in {"ok", "okbad"} -> ExitJson(FALSE)
      [] MessageContains(answer, "does not exist") -> ExitJson(FALSE)
      [] BodyTruthy(answer) -> EventEnds("fail", "query", {}) /\ UNCHANGED changed
      [] OTHER -> EventEnds("raise", "AttributeError", {}) /\ UNCHANGED changed

\* get_event_by_id and lines 581-587
GetEventById ==
    /\ prog = "wf_event" /\ pc = "get_event_by_id"
    /\ \E answer \in ReadAnswers :
          /\ http' = Append(http, EventRequest("GET", "event", params.id,
                                               <<>>, answer))
          /\ ReadEnds(answer)
    /\ UNCHANGED <<prog, given, others, params, remote, existing, i, attempts, result,
                   past>>

\* get_event_by_query and lines 590-595
GetEventByQuery ==
    /\ prog = "wf_event" /\ pc = "get_event_by_query"
    /\ \E answer \in ReadAnswers :
          /\ http' = Append(http, EventRequest("POST", "search", PyNone,
                                               <<>>, answer))
          /\ ReadEnds(answer)
    /\ UNCHANGED <<prog, given, others, params, remote, existing, i, attempts, result,
                   past>>

\* one urlopen of the for loop of update_event / delete_event_by_id:
\*   it returns: json.loads of the body (ValueError is not caught), exit_json;
\*   HTTPError: warn, sleep, next attempt; fail_json after the last one
WriteAttempt(method, body, failure) ==
    /\ i < MAX_ATTEMPTS
    /\ \E answer \in {"ok", "okbad", "other"} :
          /\ http' = Append(http, EventRequest(method, "event", params.id,
                                               body, answer))
          /\ CASE answer = "ok" -> ExitJson(TRUE) /\ UNCHANGED i
               [] answer = "okbad" ->
                    EventEnds("raise", "ValueError", {}) /\ UNCHANGED <<changed, i>>
               [] OTHER ->
                    /\ i' = i + 1
                    /\ UNCHANGED changed
                    /\ IF i + 1 = MAX_ATTEMPTS
                       THEN EventEnds("fail", failure, {})
                       ELSE UNCHANGED <<pc, outcome, msg>>

\* update_event and lines 564-569
UpdateEvent ==
    /\ prog = "wf_event" /\ pc = "update_event"
    /\ WriteAttempt("PUT", params.body.d, "update")
    /\ UNCHANGED <<prog, given, others, params, remote, existing, attempts, result,
                   past>>

\* delete_event_by_id and lines 573-577
DeleteEventById ==
    /\ prog = "wf_event" /\ pc = "delete_event_by_id"
    /\ WriteAttempt("DELETE", <<>>, "delete")
    /\ UNCHANGED <<prog, given, others, params, remote, existing, attempts, result,
                   past>>

\* generate_new_event and lines 598-602: one urlopen of the for loop
\*   it returns: break, json.loads (ValueError becomes Exception), exit_json;
\*   HTTPError 500: fail_json; 406 or another code: sleep, next attempt;
\*   after the last attempt response is None and response.read() raises
GenerateNewEvent ==
    /\ prog = "wf_event" /\ pc = "generate_new_event"
    /\ i < MAX_ATTEMPTS
    /\ \E answer \in {"ok", "okbad", "406", "500", "other"} :
          /\ http' = Append(http, EventRequest("POST", "event", PyNone,
                                               params.body.d, answer))
          /\ CASE answer = "ok" -> ExitJson(TRUE) /\ UNCHANGED i
               [] answer = "okbad" ->
                    EventEnds("raise", "Exception", {}) /\ UNCHANGED <<changed, i>>
               [] answer = "500" ->
                    EventEnds("fail", "500", {}) /\ UNCHANGED <<changed, i>>
               [] OTHER ->
                    /\ i' = i + 1
                    /\ UNCHANGED changed
                    /\ IF i + 1 = MAX_ATTEMPTS
                       THEN EventEnds("raise", "AttributeError", {})
                       ELSE UNCHANGED <<pc, outcome, msg>>
    /\ UNCHANGED <<prog, given, others, params, remote, existing, attempts, result,
                   past>>

EventNext ==
    \/ EventArguments
    \/ EventGetTimes
    \/ EventValidate
    \/ EventSelect
    \/ GetEventById
    \/ GetEventByQuery
    \/ UpdateEvent
    \/ DeleteEventById
    \/ GenerateNewEvent

SpecEvent == EventInit /\ [][EventNext]_vars

-----------------------------------------------------------------------------
(* wf_alert *)

AlertInit ==
    /\ prog = "wf_alert"
    /\ pc = "get_alert"
    /\ outcome = "running"
    /\ changed = FALSE
    /\ http = <<>>
    /\ msg = NoMsg
    /\ params = [alert_id |-> PyStr("x")]
    /\ remote = {}
    /\ existing = <<>>
    /\ i = 0
    /\ attempts = 0
    /\ result = "None"
    /\ past = <<>>
    /\ others = 0
    /\ given = params

\* get_alert and lines 108-113
GetAlert ==
    /\ prog = "wf_alert" /\ pc = "get_alert"
    /\ \E answer \in ReadAnswers :
          /\ http' = Append(http, EventRequest("GET", "alert", params.alert_id,
                                               <<>>, answer))
          /\ ReadEnds(answer)
    /\ UNCHANGED <<prog, given, others, params, remote, existing, i, attempts, result,
                   past>>

-----------------------------------------------------------------------------
(* Every module *)

Init == TagsInit \/ SourceInit \/ EventInit \/ AlertInit

Next == TagsNext \/ SourceNext \/ EventNext \/ GetAlert

Spec == Init /\ [][Next]_vars

-----------------------------------------------------------------------------
(* Claims about wf_source_tags *)

\* the tags the first GET of this invocation returned
CurrentTags == Range(http[1].items)

\* the tags of the requests with this method
TagsOf(log, method) ==
    {log[k].tag : k \in {k \in 1..Len(log) : log[k].method = method}}

\* C1: for all tag sets current and desired (empty ones too), a replace run
\* in which every HTTP call succeeds leaves the remote tag set equal to
\* desired: it deletes exactly current \ desired and adds exactly
\* desired \ current.
C1_ReplaceYieldsDesired ==
    (/\ prog = "wf_source_tags"
     /\ params.state = "replace"
     /\ outcome = "exit"
     /\ AllSucceeded(http))
    => /\ remote = Range(params.tags)
       /\ TagsOf(http, "DELETE") = CurrentTags \ Range(params.tags)
       /\ TagsOf(http, "PUT") = Range(params.tags) \ CurrentTags

\* C2: present and absent are idempotent.  Within one run no tag of the
\* current set is PUT and no tag missing from it is DELETEd; a second run
\* with the same state and tags, after a first run whose calls all
\* succeeded, sends no PUT (present) and no DELETE (absent) and, when it
\* exits, reports changed = false.
C2_PresentAbsentIdempotent ==
    (prog = "wf_source_tags" /\ params.state \in {"present", "absent"}
        /\ http # <<>> /\ http[1].ok)
    => /\ TagsOf(http, "PUT") \cap CurrentTags = {}
       /\ TagsOf(http, "DELETE") \subseteq CurrentTags
       /\ (past # <<>> /\ AllSucceeded(past[Len(past)]) /\ AllSucceeded(http))
          => /\ params.state = "present" => TagsOf(http, "PUT") = {}
             /\ params.state = "absent" => TagsOf(http, "DELETE") = {}
             /\ outcome = "exit" => ~changed

\* C2, witness: a second present run has exited after a first run that
\* PUT a tag
C2_SecondRunExits ==
    /\ prog = "wf_source_tags" /\ params.state = "present"
    /\ Len(past) = 1 /\ AllSucceeded(past[1]) /\ TagsOf(past[1], "PUT") # {}
    /\ outcome = "exit" /\ AllSucceeded(http)

-----------------------------------------------------------------------------
(* Claims about the reads: wf_alert, wf_event by id and by query, wf_source *)

IsRead(r) ==
    \/ prog = "wf_source" /\ r.method = "GET"
    \/ prog \in {"wf_alert", "wf_event"} /\ r.api \in {"alert", "search"}
    \/ prog = "wf_event" /\ r.api = "event" /\ r.method = "GET"

\* C3: on a read, an HTTP error whose message contains 'does not exist'
\* gives an empty result and the invocation does not fail; every other HTTP
\* error (another message, or a body with no parsable message) ends the
\* invocation with fail_json.
C3_ReadErrors ==
    (prog \in {"wf_alert", "wf_event", "wf_source"} /\ http # <<>>)
    => LET last == http[Len(http)]
       IN  (IsRead(last) /\ ~last.ok)
           => IF last.answer = "does not exist"
              THEN outcome \in {"running", "exit"}
              ELSE outcome = "fail"

-----------------------------------------------------------------------------
(* Claims about wf_source *)

\* an HTTP error on create that is not 'already exists', or on update that
\* is not 'does not exist'
UnexpectedWriteError(r) ==
    \/ r.method = "POST" /\ ~r.ok /\ r.answer # "already exists"
    \/ r.method = "PUT" /\ ~r.ok /\ r.answer # "does not exist"

\* C4: no HTTP error is silently swallowed by wf_source: after an error on
\* create other than 'already exists', or on update other than 'does not
\* exist', the invocation ends with fail_json and never with exit_json.
C4_NoSwallowedError ==
    (prog = "wf_source" /\ pc = "done"
        /\ \E k \in 1..Len(http) : UnexpectedWriteError(http[k]))
    => outcome = "fail"

\* the POST of this invocation was answered 'already exists'
PostAlreadyExists(k) ==
    k \in 1..Len(http) /\ http[k].method = "POST"
        /\ http[k].answer = "already exists"

\* C5: when the POST of create_source is answered 'already exists' the
\* invocation goes on as after a success: nothing fails at the POST, the
\* final GET is sent next, and the module exits with a result whenever that
\* GET returns the source or reports it missing.
C5_AlreadyExistsIsSuccess ==
    prog = "wf_source" =>
      \A k \in 1..Len(http) : PostAlreadyExists(k) =>
        /\ Len(http) = k => outcome = "running" /\ pc = "refetch" /\ changed
        /\ Len(http) > k =>
              /\ Len(http) = k + 1 /\ http[k + 1].method = "GET"
              /\ http[k + 1].answer \in {"ok", "does not exist"}
                    => outcome = "exit" /\ changed
        /\ pc = "done" => Len(http) = k + 1

\* C5, witness: create_source got 'already exists' and the module exited
C5_ExitAfterAlreadyExists ==
    /\ prog = "wf_source" /\ outcome = "exit"
    /\ \E k \in 1..Len(http) : PostAlreadyExists(k)

-----------------------------------------------------------------------------
(* Claims about wf_event *)

\* the steps of main() before _validate_body has run
BeforeValidation == {"AnsibleModule", "get_times", "validate"}

\* the invocation ended before _validate_body
EndedEarly == msg.kind \in {"mutually_exclusive", "start_time", "end_time"}

\* _validate_body has run on a body
ValidationRan ==
    /\ prog = "wf_event" /\ BodyGiven(given)
    /\ pc \notin BeforeValidation /\ ~EndedEarly

\* C6: on an update (an id is given) a body with read-only fields fails
\* validation with an error that lists every read-only key of the body, and
\* no request is sent; a body without read-only fields gets the id, and
\* the body of the PUT carries the id of the URL.
C6_UpdateReadonly ==
    (ValidationRan /\ Truthy(given.id))
    => IF DOMAIN given.body.d \cap EVENT_READONLY_FIELDS # {}
       THEN /\ outcome = "fail" /\ msg.kind = "readonly"
            /\ msg.keys = DOMAIN given.body.d \cap EVENT_READONLY_FIELDS
            /\ http = <<>>
       ELSE /\ outcome \in {"running", "exit"}
                => "id" \in DOMAIN params.body.d /\ params.body.d["id"] = given.id
            /\ \A k \in 1..Len(http) :
                  /\ http[k].method = "PUT" /\ http[k].id = given.id
                  /\ "id" \in DOMAIN http[k].body
                  /\ http[k].body["id"] = http[k].id

\* C6, witness: an update whose body holds two read-only keys has failed
C6_TwoReadonlyKeys ==
    /\ ValidationRan /\ Truthy(given.id)
    /\ DOMAIN given.body.d = {"id", "canClose"}
    /\ outcome = "fail" /\ msg.keys = {"id", "canClose"}

\* C7: a body value whose type mismatches the schema is coerced to the
\* declared type: a string given for hosts on a create is POSTed as the
\* one-element list of that string, and a list given for hosts is POSTed
\* unchanged.
C7_HostsStringBecomesOneElementList ==
    (prog = "wf_event" /\ BodyGiven(given)
        /\ "hosts" \in DOMAIN given.body.d)
    => \A k \in 1..Len(http) :
         (http[k].method = "POST" /\ http[k].api = "event")
         => LET hosts == given.body.d["hosts"]
            IN  /\ hosts.t = "str" => http[k].body["hosts"] = PyList(<<hosts.s>>)
                /\ hosts.t = "list" => http[k].body["hosts"] = hosts

\* the body that lines 213-232 look at: the given body after lines 180-201
BodyToCoerce ==
    IF IsCreate(given.id) THEN CreateFixup(given.body.d, params)
    ELSE SetItem(given.body.d, "id", given.id)

\* the keys of the body whose value safe_cast cannot convert
Uncoercible(body) ==
    {k \in Mismatched(body) : safe_cast(k, body[k]).kind # "ok"}

\* C8: when one or more fields cannot be coerced, validation fails with one
\* error that enumerates every such field, and no request is sent, whatever
\* the way the coercion fails.
C8_EveryFailedCoercionListed ==
    (/\ ValidationRan
     /\ msg.kind \notin {"readonly", "invalid_keys"}
     /\ Uncoercible(BodyToCoerce) # {})
    => /\ msg.kind = "ValueError"
       /\ msg.keys = Uncoercible(BodyToCoerce)
       /\ http = <<>>

\* the request of each of the five operations: <<method, api>>
OperationRequest ==
    [update |-> <<"PUT", "event">>, delete |-> <<"DELETE", "event">>,
     get |-> <<"GET", "event">>, search |-> <<"POST", "search">>,
     create |-> <<"POST", "event">>]

\* the operation the inputs ask for, the cases read in the order of C9;
\* an input is supplied when it is not empty
AskedOperation ==
    IF Truthy(given.id) /\ BodyGiven(given) THEN "update"
    ELSE IF Truthy(given.id) /\ given.delete THEN "delete"
    ELSE IF Truthy(given.id) THEN "get"
    ELSE IF Truthy(given.query) THEN "search"
    ELSE IF BodyGiven(given) THEN "create"
    ELSE "none"

C10_DeleteIgnoresBody ==
    (prog = "wf_event" /\ given.delete /\ Truthy(given.id))
    => \A k \in 1..Len(http) :
          http[k].method = "DELETE" /\ http[k].body = <<>>

\* the requests that create an event
IsCreatePost(r) == r.method = "POST" /\ r.api = "event"

\* C11: on a create (no id) the body that is POSTed always holds
\* annotations, startTime and endTime; annotations is the empty map and the
\* times are the validated window only when the given body does not supply
\* them; a value the caller supplied with the type of the schema (a
\* non-empty annotations map too) is POSTed as given.
C11_CreateKeepsSuppliedValues ==
    (prog = "wf_event" /\ BodyGiven(given) /\ ~Truthy(given.id))
    => \A k \in 1..Len(http) : IsCreatePost(http[k]) =>
         LET sent == http[k].body
             body == given.body.d
         IN  /\ {"annotations", "startTime", "endTime"} \subseteq DOMAIN sent
             /\ "annotations" \notin DOMAIN body
                   => sent["annotations"] = PyDict(<<>>)
             /\ "startTime" \notin DOMAIN body
                   => sent["startTime"] = params.validated_start_time
             /\ "endTime" \notin DOMAIN body
                   => sent["endTime"] = params.validated_end_time
             /\ \A key \in DOMAIN body :
                   IsInstance(body[key], VALID_EVENT_DICT[key])
                      => sent[key] = body[key]

-----------------------------------------------------------------------------
(* More claims about wf_source *)

\* the invocation hides a source and gives neither tags nor a description
HidesOnly == given.hidden /\ given.tags = <<>> /\ given.description = ""

\* the first GET found the source and the PUT that followed succeeded, with
\* no other client in between: existing is still what the first GET returned
UpdatedExisting ==
    /\ prog = "wf_source" /\ pc = "refetch" /\ others = 0
    /\ Len(http) = 2 /\ http[1].ok /\ http[2].method = "PUT" /\ http[2].ok

\* C12: hiding an existing source with neither tags nor description given
\* leaves its tags and description as they were: the PUT carries them and
\* the only effect of the update is the added tag hidden.
C12_HideKeepsTagsAndDescription ==
    (UpdatedExisting /\ HidesOnly)
    => /\ http[2].payload.tags = existing.tags \cup {"hidden"}
       /\ http[2].payload.description = existing.description
       /\ remote.tags = existing.tags \cup {"hidden"}
       /\ remote.description = existing.description

-----------------------------------------------------------------------------
(* More claims about wf_source_tags *)

\* the requests of the log with this method
RequestsOf(log, method) == {k \in 1..Len(log) : log[k].method = method}

\* the failed PUTs in a row that end at request k
RECURSIVE FailedPuts(_)
FailedPuts(k) ==
    IF k = 0 THEN 0
    ELSE IF http[k].method # "PUT" \/ http[k].ok THEN 0
    ELSE 1 + FailedPuts(k - 1)

\* the removals the run has to make: one for each element of the list it
\* loops over that is to be deleted
Removals ==
    CASE params.state = "absent" ->
            Cardinality({j \in 1..Len(params.tags) : params.tags[j] \in CurrentTags})
      [] params.state = "replace" ->
            Cardinality(CurrentTags \ Range(params.tags))
      [] OTHER -> 0

\* C13: adding a tag sends at most 10 PUTs: a PUT that succeeds is the last
\* one for the tag and the run goes on, a PUT that fails is followed by a
\* PUT of the same tag, and the invocation fails exactly when the 10th PUT
\* in a row fails; removing a tag sends exactly one DELETE, and a DELETE
\* that fails ends the invocation with a failure at once.
C13_TenPutsOneDelete ==
    (prog = "wf_source_tags" /\ http # <<>> /\ http[1].ok)
    => /\ \A k \in 1..Len(http) :
            LET r == http[k]
                last == k = Len(http)
            IN  /\ (r.method = "PUT" /\ r.ok /\ last) => outcome = "running"
                /\ (r.method = "PUT" /\ ~r.ok) =>
                      /\ FailedPuts(k) <= 10
                      /\ IF FailedPuts(k) = 10
                         THEN last /\ outcome = "fail"
                         ELSE IF last THEN outcome = "running"
                         ELSE http[k + 1].method = "PUT" /\ http[k + 1].tag = r.tag
                /\ (r.method = "DELETE" /\ ~r.ok) => last /\ outcome = "fail"
                /\ (r.method = "DELETE" /\ r.ok /\ last) => outcome = "running"
       /\ Cardinality(RequestsOf(http, "DELETE")) <= Removals
       /\ (outcome = "exit" /\ params.tags # <<>>)
             => Cardinality(RequestsOf(http, "DELETE")) = Removals

\* C13, witness: put_tag has failed at its 10th attempt
C13_TenthPutFails ==
    /\ prog = "wf_source_tags" /\ outcome = "fail"
    /\ http[Len(http)].method = "PUT" /\ FailedPuts(Len(http)) = 10

-----------------------------------------------------------------------------
(* More claims about wf_event *)

\* the requests of create, update and delete
IsEventWrite(r) == r.api = "event" /\ r.method \in {"POST", "PUT", "DELETE"}

\* C14: create, update and delete send at most MAX_ATTEMPTS requests and
\* stop at the first that succeeds; when every attempt has failed the
\* invocation ends with a failure reported by fail_json and never with a
\* result; on create a 500 is fatal at once, and a 406 with attempts left
\* does not end the invocation.
C14_BoundedAttemptsThenFailure ==
    (prog = "wf_event" /\ http # <<>> /\ IsEventWrite(http[1]))
    => LET n == Len(http)
       IN  /\ n <= MAX_ATTEMPTS
           /\ \A k \in 1..n : http[k].ok => k = n
           /\ (\A k \in 1..n : ~http[k].ok) =>
                 /\ outcome # "exit"
                 /\ n = MAX_ATTEMPTS => outcome = "fail"
                 /\ http[n].answer = "500" => outcome = "fail"
                 /\ (http[n].answer = "406" /\ n < MAX_ATTEMPTS)
                       => outcome = "running"

-----------------------------------------------------------------------------
(* Claims about the order of the requests of wf_source *)

\* C15: an invocation of wf_source that ends with exit_json has sent three
\* requests: a GET of the source, then one mutating request (POST when the
\* GET found no source, PUT when it found one), then a final GET whose
\* answer is the source that is returned; changed is true in both branches.
C15_GetMutateGet ==
    (prog = "wf_source" /\ outcome = "exit")
    => /\ Len(http) = 3
       /\ http[1].method = "GET"
       /\ http[2].method = (IF http[1].answer = "ok" THEN "PUT" ELSE "POST")
       /\ http[1].answer \in {"ok", "does not exist"}
       /\ http[3].method = "GET"
       /\ existing = (IF http[3].answer = "ok" THEN remote ELSE AbsentSource)
       /\ changed

\* C15, witness: an invocation that updated a source it found has exited
C15_ExitAfterPut ==
    /\ prog = "wf_source" /\ outcome = "exit"
    /\ Len(http) = 3 /\ http[2].method = "PUT" /\ http[2].ok /\ http[3].ok

-----------------------------------------------------------------------------
(* Claims about the order of the requests of wf_source_tags *)

\* C16: in a replace run every DELETE precedes every PUT: when the first PUT
\* is sent, every tag of current \ desired has been DELETEd, and no DELETE
\* follows a PUT.
C16_DeletesBeforePuts ==
    (prog = "wf_source_tags" /\ params.state = "replace"
        /\ http # <<>> /\ http[1].ok)
    => /\ \A j, k \in 1..Len(http) :
            (http[j].method = "PUT" /\ j < k) => http[k].method # "DELETE"
       /\ RequestsOf(http, "PUT") # {}
             => TagsOf(http, "DELETE") = CurrentTags \ Range(params.tags)

\* C16, witness: a replace run has sent a DELETE and then a PUT
C16_DeleteThenPut ==
    /\ prog = "wf_source_tags" /\ params.state = "replace"
    /\ RequestsOf(http, "DELETE") # {} /\ RequestsOf(http, "PUT") # {}

\* the tags of the requests with this method that succeeded
DoneTags(log, method) ==
    {log[k].tag : k \in {k \in RequestsOf(log, method) : log[k].ok}}

\* request k is a DELETE or a PUT that failed fatally
FatalWrite(k) ==
    \/ http[k].method = "DELETE" /\ ~http[k].ok
    \/ http[k].method = "PUT" /\ ~http[k].ok /\ FailedPuts(k) = 10

\* C17: a DELETE or PUT that fails fatally in a reconcile is the last request
\* of the invocation, the invocation has ended with a failure and not with
\* a result, and the changes made before it stay: the remote set is the
\* current set less the tags DELETEd plus the tags PUT.
C17_FatalWriteStopsWithoutRollback ==
    (prog = "wf_source_tags" /\ http # <<>> /\ http[1].ok)
    => \A k \in 1..Len(http) : FatalWrite(k) =>
         /\ k = Len(http)
         /\ outcome = "fail" /\ pc = "done"
         /\ remote = (CurrentTags \ DoneTags(http, "DELETE"))
                        \cup DoneTags(http, "PUT")

\* C17, witness: a replace has failed halfway, the remote set is neither the
\* current nor the desired one
C17_FailedHalfway ==
    /\ prog = "wf_source_tags" /\ params.state = "replace" /\ outcome = "fail"
    /\ Len(http) > 1 /\ FatalWrite(Len(http))
    /\ remote # CurrentTags /\ remote # Range(params.tags)

\* the PUT and DELETE requests of this invocation
Writes == RequestsOf(http, "PUT") \cup RequestsOf(http, "DELETE")

\* C18: wf_source_tags reports changed = true if and only if it sent at
\* least one PUT or DELETE; with tags empty or unset, or state unset, it
\* sends only GETs and reports changed = false with the current tag list.
C18_ChangedIffWrite ==
    prog = "wf_source_tags" =>
      /\ outcome = "exit" => (changed <=> Writes # {})
      /\ (params.tags = <<>> \/ params.state = "None") =>
            /\ Writes = {}
            /\ outcome = "exit" =>
                  /\ ~changed
                  /\ result = http[Len(http)].items
                  /\ Range(result) = remote

\* C18, witness: an absent run that sent a DELETE has reported changed
C18_ChangedAfterDelete ==
    /\ prog = "wf_source_tags" /\ params.state = "absent"
    /\ outcome = "exit" /\ changed /\ RequestsOf(http, "DELETE") # {}

-----------------------------------------------------------------------------
(* Claims about the hidden option of wf_source *)

\* C19: with hidden = true the mutating request, the POST of the create
\* branch as well as the PUT of the update branch, carries the tag hidden.
C19_HiddenTagOnEveryWrite ==
    (prog = "wf_source" /\ given.hidden)
    => \A k \in 1..Len(http) :
          http[k].method \in {"POST", "PUT"}
             => "hidden" \in http[k].payload.tags

-----------------------------------------------------------------------------
(* Claims about the time window of wf_event *)

\* get_times has returned
TimesValidated ==
    /\ prog = "wf_event"
    /\ params.validated_start_time # PyNone
    /\ params.validated_end_time # PyNone

\* C20: when the caller gives neither start_time nor end_time the default
\* window is well formed: validated_start_time <= validated_end_time.
C20_DefaultWindowNotInverted ==
    (TimesValidated /\ given.start_time = PyNone /\ given.end_time = PyNone)
    => params.validated_start_time.n <= params.validated_end_time.n

====
